---- MODULE Spec2Model ----
(***************************************************************************)
(* Model of viewer/deploy.py: the patch / build / publish / generate /     *)
(* restore pipeline around ../.cargo/config.toml.                          *)
(*                                                                         *)
(* Text is modelled as a sequence of strings.  The configuration file is   *)
(* a sequence over three tokens: "u" stands for the text '\n[unstable]\n', *)
(* "b" for the text 'build-std' and "t" for the rest of STD_CODE           *)
(* (' = ["std", "panic_abort"]\n[build]\ntarget-dir = "<abs path>"').      *)
(* File names are sequences of single characters, so that endswith and     *)
(* the slice [:-len("_bg.wasm")] are computed character by character.      *)
(***************************************************************************)
EXTENDS Integers, Sequences, FiniteSets, TLC

\* ------------------------------------------------------------------ bounds
MaxCfgLen == 4
MaxLongCfgLen == 6

\* ------------------------------------------------------------- text helpers
StartsWith(s, p) == Len(p) <= Len(s) /\ SubSeq(s, 1, Len(p)) = p

\* Python: f.endswith(suffix)
EndsWith(s, suffix) ==
    Len(suffix) <= Len(s) /\ SubSeq(s, Len(s) - Len(suffix) + 1, Len(s)) = suffix

\* Python: sub in s   (sub is never empty here)
Contains(s, sub) ==
    \E i \in 1..(Len(s) - Len(sub) + 1) : SubSeq(s, i, i + Len(sub) - 1) = sub

\* Python: s.replace(old, new) -- every non-overlapping occurrence, scanning
\* from the left (no count argument is passed).
RECURSIVE Replace(_, _, _)
Replace(s, old, new) ==
    IF Len(s) < Len(old) THEN s
    ELSE IF StartsWith(s, old)
         THEN new \o Replace(SubSeq(s, Len(old) + 1, Len(s)), old, new)
         ELSE <<Head(s)>> \o Replace(Tail(s), old, new)

\* Python: s[:-n] for n > 0
DropLast(s, n) == IF Len(s) <= n THEN <<>> ELSE SubSeq(s, 1, Len(s) - n)

Digit(d) == CASE d = 0 -> "0" [] d = 1 -> "1" [] d = 2 -> "2" [] d = 3 -> "3"
              [] d = 4 -> "4" [] d = 5 -> "5" [] d = 6 -> "6" [] d = 7 -> "7"
              [] d = 8 -> "8" [] d = 9 -> "9"

\* Python: str(size) for size >= 0
RECURSIVE Str(_)
Str(n) == IF n < 10 THEN <<Digit(n)>> ELSE Str(n \div 10) \o <<Digit(n % 10)>>

\* All sequences over S of length at most n
SeqsUpTo(S, n) == UNION {[1..k -> S] : k \in 0..n}

\* All orders in which the elements of a finite set can be listed
Listings(S) ==
    {l \in [1..Cardinality(S) -> S] : \A x \in S : \E i \in DOMAIN l : l[i] = x}

\* ------------------------------------------------------------ program text
CfgChars == {"u", "b", "t"}
BUILD_STD == <<"b">>
STD_CODE == <<"u", "b", "t">>

BG_WASM == <<"_", "b", "g", ".", "w", "a", "s", "m">>
DOT_WASM == <<".", "w", "a", "s", "m">>
DOT_JS == <<".", "j", "s">>
HTACCESS == <<".", "h", "t", "a", "c", "c", "e", "s", "s">>

\* The literal pieces of the block of lines 26-37, around the three
\* interpolations
BlockHeader == "\n<FilesMatch graph_n4j.bin.br>\n    Header append X-file-size \""
BlockRule == "\"\n</FilesMatch>\n<FilesMatch (index.html)|(viewer-.*.js)>\n\tHeader set Pragma no-cache\n</FilesMatch>\nRewriteEngine On\nRewriteRule viewer_bg.wasm$ "
BlockCond == " [L]\nRewriteCond %{HTTP_REFERER} workerHelpers.worker.js$\nRewriteRule ^$ "
BlockTail == " [L]\n        "

\* a block whose two rewrite targets are exchanged
FragmentBlockSwapped(sz, stem) ==
    <<BlockHeader>> \o Str(sz) \o <<BlockRule>> \o stem \o DOT_JS
    \o <<BlockCond>> \o stem \o BG_WASM \o <<BlockTail>>

\* The block appended to the template (lines 26-37), with {size} and
\* {outfile_name} interpolated.
FragmentBlock(sz, stem) ==
    <<BlockHeader>> \o Str(sz) \o <<BlockRule>> \o stem \o BG_WASM
    \o <<BlockCond>> \o stem \o DOT_JS \o <<BlockTail>>

\* ------------------------------------------------------------- file trees
\* A tree is a function from paths to contents; a path is a sequence of
\* names, a file directly under the root has a path of length 1.
EmptyTree == <<>>
TreeOver(paths, content) == [p \in paths |-> content]

\* cmd /c del Z:\web\network5\* /Q : deletes the files directly under the
\* directory, not its subdirectories
DelTop(tree) == [p \in {q \in DOMAIN tree : Len(q) > 1} |-> tree[p]]

\* a copy that keeps the files already at the destination
XCopyNoOverwrite(src, dst) ==
    [p \in DOMAIN dst \cup DOMAIN src |-> IF p \in DOMAIN dst THEN dst[p] ELSE src[p]]

\* xcopy src\*.* dst\ /s /y : copies every file of src, subdirectories
\* included, overwriting without prompting
XCopy(src, dst) ==
    [p \in DOMAIN dst \cup DOMAIN src |-> IF p \in DOMAIN src THEN src[p] ELSE dst[p]]

\* open(path, "a") : creates the file or keeps what it holds
TruncateKeeps(tree, path) ==
    [p \in DOMAIN tree \cup {path} |-> IF p \in DOMAIN tree THEN tree[p] ELSE <<>>]

\* open(path, "w") : creates or truncates the file
Truncate(tree, path) ==
    [p \in DOMAIN tree \cup {path} |-> IF p = path THEN <<>> ELSE tree[p]]

\* f.write(text) on the open file
WriteTo(tree, path, text) ==
    [p \in DOMAIN tree |-> IF p = path THEN tree[p] \o text ELSE tree[p]]

\* os.listdir(dir): the names directly under the directory
Entries(tree) == {p[1] : p \in DOMAIN tree}

\* next(f for f in listing if f.endswith(".wasm")): does it find a file?
HasArtifact(listing) == \E i \in DOMAIN listing : EndsWith(listing[i], DOT_WASM)

FirstArtifact(listing) ==
    listing[CHOOSE i \in DOMAIN listing :
        /\ EndsWith(listing[i], DOT_WASM)
        /\ \A j \in 1..(i - 1) : ~EndsWith(listing[j], DOT_WASM)]

\* a stem that strips the suffix the search looked for
ArtifactStemDotWasm(listing) == DropLast(FirstArtifact(listing), Len(DOT_WASM))

\* outfile_name (line 22)
ArtifactStem(listing) == DropLast(FirstArtifact(listing), Len(BG_WASM))

\* a patch step that appends without looking
NeedsPatchAlways(text) == TRUE

\* a patch step that never appends
NeedsPatchNever(text) == FALSE

\* the patch condition (line 9)
NeedsPatch(text) == ~Contains(text, BUILD_STD)

\* the restore computation (line 47)
Restored(text) == Replace(text, STD_CODE, <<>>)

\* the template file .htaccess of the working directory (line 24)
Template == <<"# static .htaccess template\n">>

\* ------------------------------------------------------------------- state
Runs == {"r1", "r2"}

NoFile == <<"<no file>">>
NotBuilt == <<"<build not invoked>">>

VARIABLES
    cfg,          \* content of ../.cargo/config.toml
    file_size,    \* content of the scratch file file_size, or NoFile
    dist,         \* the tree under dist\
    dest,         \* the tree under Z:\web\network5\
    assets,       \* the tree under assets\
    trunkOut,     \* the tree a successful `trunk build` leaves under dist\
    assetSize,    \* the size of ../graph_n4j.bin
    pc,           \* per run: the statement it is at
    config,       \* per run: the variable config
    size,         \* per run: the variable size
    outfile_name, \* per run: the variable outfile_name
    found,        \* per run: the name next(...) returned at line 22
    raised,       \* per run: the exception in flight ("none" if none)
    failed,       \* per run: the <<step, exception>> pairs raised, in order
    done,         \* per run: the steps that completed normally, in order
    cfgAtBuild,   \* per run: config.toml as it was when trunk was invoked
    cfgWrites,    \* per run: the steps that wrote config.toml, in order
    cfg0,         \* config.toml before the run
    dest0         \* the destination tree before the run

vars == <<cfg, file_size, dist, dest, assets, trunkOut, assetSize, pc, config, size,
          outfile_name, found, raised, failed, done, cfgAtBuild, cfgWrites, cfg0, dest0>>

files == <<cfg, file_size, dist, dest>>
inputs == <<assets, trunkOut, assetSize, cfg0, dest0>>
locals == <<config, size, outfile_name, found, cfgAtBuild, cfgWrites>>

\* ---------------------------------------------------------- input universes
OLD == <<"o">>
SUB == <<"s">>
V_WASM == <<"v">> \o BG_WASM
V_JS == <<"v">> \o DOT_JS
INDEX == <<"i">>

FromDist == <<"dist">>
FromAssets == <<"assets">>
FromBefore == <<"old">>

Configs == SeqsUpTo(CfgChars, MaxCfgLen)
LongConfigs == SeqsUpTo(CfgChars, MaxLongCfgLen)

InitWith(cfgs, dests, outs, assetTrees, sizes, started) ==
    /\ cfg \in cfgs
    /\ cfg0 = cfg
    /\ file_size = NoFile
    /\ dist = EmptyTree
    /\ dest \in dests
    /\ dest0 = dest
    /\ assets \in assetTrees
    /\ trunkOut \in outs
    /\ assetSize \in sizes
    /\ pc = [r \in Runs |-> IF r \in started THEN "read" ELSE "off"]
    /\ config = [r \in Runs |-> <<>>]
    /\ size = [r \in Runs |-> 0]
    /\ outfile_name = [r \in Runs |-> <<>>]
    /\ found = [r \in Runs |-> <<>>]
    /\ raised = [r \in Runs |-> "none"]
    /\ failed = [r \in Runs |-> <<>>]
    /\ done = [r \in Runs |-> <<>>]
    /\ cfgAtBuild = [r \in Runs |-> NotBuilt]
    /\ cfgWrites = [r \in Runs |-> <<>>]

Init ==
    InitWith(Configs,
             {EmptyTree, TreeOver({<<OLD>>, <<HTACCESS>>}, FromBefore)},
             {TreeOver({<<V_WASM>>, <<V_JS>>}, FromDist), TreeOver({<<INDEX>>}, FromDist)},
             {TreeOver({<<INDEX>>}, FromAssets)},
             {7, 123456789},
             {"r1"})

\* long configuration files, which can hold the marker more than once
InitLong ==
    InitWith(LongConfigs,
             {EmptyTree},
             {TreeOver({<<V_WASM>>, <<V_JS>>}, FromDist)},
             {TreeOver({<<INDEX>>}, FromAssets)},
             {7},
             {"r1"})

\* destination, output and assets trees with subdirectories, shared paths
\* and .htaccess files
InitPublish ==
    InitWith({<<>>, STD_CODE},
             {TreeOver(P, FromBefore) :
                 P \in SUBSET {<<OLD>>, <<SUB, OLD>>, <<HTACCESS>>, <<INDEX>>}},
             {TreeOver(P, FromDist) :
                 P \in SUBSET {<<V_WASM>>, <<INDEX>>, <<SUB, INDEX>>, <<HTACCESS>>}},
             {TreeOver(P, FromAssets) :
                 P \in SUBSET {<<INDEX>>, <<SUB, INDEX>>, <<HTACCESS>>}},
             {7},
             {"r1"})

\* output directories with every mix of artifact and other file names
AB_WASM == <<"a", "b">> \o BG_WASM
X_WASM == <<"x">> \o DOT_WASM
LocateNames == {V_WASM, AB_WASM, X_WASM, V_JS, INDEX}

InitLocate ==
    InitWith({<<>>},
             {EmptyTree},
             {TreeOver({<<n>> : n \in N}, FromDist) : N \in SUBSET LocateNames},
             {TreeOver({<<INDEX>>}, FromAssets)},
             {7},
             {"r1"})

\* two runs of the script started against the same files
InitTwo ==
    InitWith({<<>>, <<"u">>, <<"b">>, STD_CODE},
             {EmptyTree},
             {TreeOver({<<V_WASM>>, <<V_JS>>}, FromDist)},
             {TreeOver({<<INDEX>>}, FromAssets)},
             {7},
             Runs)

\* ------------------------------------------------------------------ actions
\* `step` raises `err`; control goes to `to`
Raise(r, step, err, to) ==
    /\ raised' = [raised EXCEPT ![r] = err]
    /\ failed' = [failed EXCEPT ![r] = Append(@, <<step, err>>)]
    /\ pc' = [pc EXCEPT ![r] = to]
    /\ UNCHANGED done

\* `step` completes; control goes to `to`
Goto(r, step, to) ==
    /\ pc' = [pc EXCEPT ![r] = to]
    /\ done' = [done EXCEPT ![r] = Append(@, step)]
    /\ UNCHANGED <<raised, failed>>

\* lines 4-5
Read(r) ==
    /\ pc[r] = "read"
    /\ \/ /\ config' = [config EXCEPT ![r] = cfg]
          /\ Goto(r, "read", "patch")
       \/ /\ Raise(r, "read", "OSError: config.toml", "exit")
          /\ UNCHANGED config
    /\ UNCHANGED <<files, inputs, size, outfile_name, found, cfgAtBuild, cfgWrites>>

\* lines 9-12
Patch(r) ==
    /\ pc[r] = "patch"
    /\ IF NeedsPatch(config[r])
       THEN /\ config' = [config EXCEPT ![r] = @ \o STD_CODE]
            /\ \/ /\ cfg' = config'[r]
                  /\ cfgWrites' = [cfgWrites EXCEPT ![r] = Append(@, "patch")]
                  /\ Goto(r, "patch", "getsize")
               \/ /\ Raise(r, "patch", "OSError: config.toml", "exit")
                  /\ UNCHANGED <<cfg, cfgWrites>>
       ELSE /\ Goto(r, "patch", "getsize")
            /\ UNCHANGED <<cfg, config, cfgWrites>>
    /\ UNCHANGED <<file_size, dist, dest, inputs, size, outfile_name, found, cfgAtBuild>>

\* line 15
GetSize(r) ==
    /\ pc[r] = "getsize"
    /\ \/ /\ size' = [size EXCEPT ![r] = assetSize]
          /\ Goto(r, "getsize", "write_size")
       \/ /\ Raise(r, "getsize", "OSError: graph_n4j.bin", "remove")
          /\ UNCHANGED size
    /\ UNCHANGED <<files, inputs, config, outfile_name, found, cfgAtBuild, cfgWrites>>

\* lines 16-17
WriteSize(r) ==
    /\ pc[r] = "write_size"
    /\ \/ /\ file_size' = Str(size[r])
          /\ Goto(r, "write_size", "build")
       \/ /\ Raise(r, "write_size", "OSError: file_size", "remove")
          /\ UNCHANGED file_size
    /\ UNCHANGED <<cfg, dist, dest, inputs, locals>>

\* line 18
Build(r) ==
    /\ pc[r] = "build"
    /\ cfgAtBuild' = [cfgAtBuild EXCEPT ![r] = cfg]
    /\ \/ /\ dist' = trunkOut
          /\ Goto(r, "build", "del")
       \/ /\ Raise(r, "build", "CalledProcessError: trunk build", "except")
          /\ UNCHANGED dist
    /\ UNCHANGED <<cfg, file_size, dest, inputs, config, size, outfile_name, found, cfgWrites>>

\* line 19
Del(r) ==
    /\ pc[r] = "del"
    /\ \/ /\ dest' = DelTop(dest)
          /\ Goto(r, "del", "xcopy_dist")
       \/ /\ Raise(r, "del", "CalledProcessError: del", "except")
          /\ UNCHANGED dest
    /\ UNCHANGED <<cfg, file_size, dist, inputs, locals>>

\* line 20
XCopyDist(r) ==
    /\ pc[r] = "xcopy_dist"
    /\ \/ /\ dest' = XCopy(dist, dest)
          /\ Goto(r, "xcopy_dist", "xcopy_assets")
       \/ /\ Raise(r, "xcopy_dist", "CalledProcessError: xcopy dist", "except")
          /\ UNCHANGED dest
    /\ UNCHANGED <<cfg, file_size, dist, inputs, locals>>

\* line 21
XCopyAssets(r) ==
    /\ pc[r] = "xcopy_assets"
    /\ \/ /\ dest' = XCopy(assets, dest)
          /\ Goto(r, "xcopy_assets", "locate")
       \/ /\ Raise(r, "xcopy_assets", "CalledProcessError: xcopy assets", "except")
          /\ UNCHANGED dest
    /\ UNCHANGED <<cfg, file_size, dist, inputs, locals>>

\* a search with a default, next(..., ""), which never raises
LocateDefaults(r) ==
    /\ pc[r] = "locate"
    /\ \E listing \in Listings(Entries(dist)) :
          /\ found' = [found EXCEPT ![r] =
                          IF HasArtifact(listing) THEN FirstArtifact(listing) ELSE <<>>]
          /\ outfile_name' = [outfile_name EXCEPT ![r] = DropLast(found'[r], Len(BG_WASM))]
          /\ Goto(r, "locate", "open_htaccess")
    /\ UNCHANGED <<files, inputs, config, size, cfgAtBuild, cfgWrites>>

\* line 22: os.listdir returns the names in an arbitrary order
Locate(r) ==
    /\ pc[r] = "locate"
    /\ \E listing \in Listings(Entries(dist)) :
          IF HasArtifact(listing)
          THEN /\ found' = [found EXCEPT ![r] = FirstArtifact(listing)]
               /\ outfile_name' = [outfile_name EXCEPT ![r] = ArtifactStem(listing)]
               /\ Goto(r, "locate", "open_htaccess")
          ELSE /\ Raise(r, "locate", "StopIteration", "remove")
               /\ UNCHANGED <<outfile_name, found>>
    /\ UNCHANGED <<files, inputs, config, size, cfgAtBuild, cfgWrites>>

\* line 23: open(r"Z:\web\network5\.htaccess", "w")
OpenHtaccess(r) ==
    /\ pc[r] = "open_htaccess"
    /\ \/ /\ dest' = Truncate(dest, <<HTACCESS>>)
          /\ Goto(r, "open_htaccess", "write_htaccess")
       \/ /\ Raise(r, "open_htaccess", "OSError: destination .htaccess", "remove")
          /\ UNCHANGED dest
    /\ UNCHANGED <<cfg, file_size, dist, inputs, locals>>

\* lines 24-37: the template is read and written, then the block; reading
\* the template may fail, which leaves the truncated file
WriteHtaccess(r) ==
    /\ pc[r] = "write_htaccess"
    /\ \/ /\ dest' = WriteTo(dest, <<HTACCESS>>,
                              Template \o FragmentBlock(size[r], outfile_name[r]))
          /\ Goto(r, "write_htaccess", "remove")
       \/ /\ Raise(r, "write_htaccess", "OSError: template .htaccess", "remove")
          /\ UNCHANGED dest
    /\ UNCHANGED <<cfg, file_size, dist, inputs, locals>>

\* a handler that prints the error and does not re-raise it
ExceptSwallows(r) ==
    /\ pc[r] = "except"
    /\ pc' = [pc EXCEPT ![r] = "remove"]
    /\ raised' = [raised EXCEPT ![r] = "none"]
    /\ done' = [done EXCEPT ![r] = Append(@, "except")]
    /\ UNCHANGED <<failed, files, inputs, locals>>

\* lines 38-40: print(e); raise e
Except(r) ==
    /\ pc[r] = "except"
    /\ Goto(r, "except", "remove")
    /\ UNCHANGED <<files, inputs, locals>>

\* a finally block that goes on to the restore and leaves file_size
RemoveKeeps(r) ==
    /\ pc[r] = "remove"
    /\ Goto(r, "remove", "restore_read")
    /\ UNCHANGED <<files, inputs, locals>>

\* line 42: os.remove("file_size") raises when the file does not exist, and
\* an exception raised here leaves the finally block at once
Remove(r) ==
    /\ pc[r] = "remove"
    /\ IF file_size = NoFile
       THEN /\ Raise(r, "remove", "FileNotFoundError: file_size", "exit")
            /\ UNCHANGED file_size
       ELSE \/ /\ file_size' = NoFile
               /\ Goto(r, "remove", "restore_read")
            \/ /\ Raise(r, "remove", "PermissionError: file_size", "exit")
               /\ UNCHANGED file_size
    /\ UNCHANGED <<cfg, dist, dest, inputs, locals>>

\* lines 44-45
RestoreRead(r) ==
    /\ pc[r] = "restore_read"
    /\ \/ /\ config' = [config EXCEPT ![r] = cfg]
          /\ Goto(r, "restore_read", "restore_write")
       \/ /\ Raise(r, "restore_read", "OSError: config.toml (restore)", "exit")
          /\ UNCHANGED config
    /\ UNCHANGED <<files, inputs, size, outfile_name, found, cfgAtBuild, cfgWrites>>

\* a restore that writes only when this run appended the marker
RestoreWriteIfPatched(r) ==
    /\ pc[r] = "restore_write"
    /\ IF "patch" \in {cfgWrites[r][i] : i \in DOMAIN cfgWrites[r]}
       THEN /\ config' = [config EXCEPT ![r] = Restored(@)]
            /\ cfg' = config'[r]
            /\ cfgWrites' = [cfgWrites EXCEPT ![r] = Append(@, "restore")]
       ELSE UNCHANGED <<cfg, config, cfgWrites>>
    /\ Goto(r, "restore_write", "exit")
    /\ UNCHANGED <<file_size, dist, dest, inputs, size, outfile_name, found, cfgAtBuild>>

\* lines 47-50
RestoreWrite(r) ==
    /\ pc[r] = "restore_write"
    /\ config' = [config EXCEPT ![r] = Restored(@)]
    /\ \/ /\ cfg' = config'[r]
          /\ cfgWrites' = [cfgWrites EXCEPT ![r] = Append(@, "restore")]
          /\ Goto(r, "restore_write", "exit")
       \/ /\ Raise(r, "restore_write", "OSError: config.toml (restore)", "exit")
          /\ UNCHANGED <<cfg, cfgWrites>>
    /\ UNCHANGED <<file_size, dist, dest, inputs, size, outfile_name, found, cfgAtBuild>>

Step(r) ==
    \/ Read(r)
    \/ Patch(r)
    \/ GetSize(r)
    \/ WriteSize(r)
    \/ Build(r)
    \/ Del(r)
    \/ XCopyDist(r)
    \/ XCopyAssets(r)
    \/ Locate(r)
    \/ OpenHtaccess(r)
    \/ WriteHtaccess(r)
    \/ Except(r)
    \/ Remove(r)
    \/ RestoreRead(r)
    \/ RestoreWrite(r)

Next == \E r \in Runs : Step(r)

Spec == Init /\ [][Next]_vars
SpecLong == InitLong /\ [][Next]_vars
SpecPublish == InitPublish /\ [][Next]_vars
SpecLocate == InitLocate /\ [][Next]_vars
SpecTwo == InitTwo /\ [][Next]_vars

\* -------------------------------------------------------- derived notions
Range(seq) == {seq[i] : i \in DOMAIN seq}
FailedSteps(r) == {failed[r][i][1] : i \in DOMAIN failed[r]}
Exited(r) == pc[r] = "exit"
Succeeded(r) == Exited(r) /\ failed[r] = <<>>
Count(seq, x) == Cardinality({i \in DOMAIN seq : seq[i] = x})
StartedRuns == {r \in Runs : pc[r] # "off"}

\* the statements of lines 19-37, which act on the destination directory
PublishSteps == {"del", "xcopy_dist", "xcopy_assets"}
GenerateSteps == {"open_htaccess", "write_htaccess"}

\* ------------------------------------------------------------------ claims

\* C1 (as stated): after a run that had no failure, or exactly one failure
\* at the build, publish, locate or generate step, config.toml holds exactly
\* the content it had before the run, whatever that content was.
C1_ConfigUnchangedAfterRun ==
    \A r \in StartedRuns :
        (/\ Exited(r)
         /\ Len(failed[r]) <= 1
         /\ FailedSteps(r) \subseteq
                {"build", "locate"} \cup PublishSteps \cup GenerateSteps)
        => cfg = cfg0

\* C2 (as stated): a run that got past the patch step and in which only
\* steps of the guarded span failed (asset size, scratch-file write, build,
\* clear, copies, location, fragment write, scratch-file removal) has
\* executed the restore exactly once when it exits.
C2_RestoreExactlyOnce ==
    \A r \in StartedRuns :
        (/\ Exited(r)
         /\ "patch" \in Range(done[r])
         /\ FailedSteps(r) \subseteq
                {"getsize", "write_size", "build", "locate", "remove"}
                    \cup PublishSteps \cup GenerateSteps)
        => Count(cfgWrites[r], "restore") = 1

\* C3: when the build tool exits non-zero, the destination directory is
\* never touched in that run; and when the run then exits with the build
\* as its only failure, the restore has run once, as the last write of
\* config.toml (which equals its pre-run content if this run patched it),
\* and the exception the caller gets is the build's CalledProcessError.
C3_BuildFailure ==
    \A r \in StartedRuns :
        /\ "build" \in FailedSteps(r) =>
              /\ dest = dest0
              /\ Range(done[r]) \cap (PublishSteps \cup GenerateSteps) = {}
        /\ (Exited(r) /\ failed[r] = <<<<"build", "CalledProcessError: trunk build">>>>) =>
              /\ Count(cfgWrites[r], "restore") = 1
              /\ cfgWrites[r][Len(cfgWrites[r])] = "restore"
              /\ ("patch" \in Range(cfgWrites[r]) => cfg = cfg0)
              /\ raised[r] = "CalledProcessError: trunk build"

C3_Witness ==
    \E r \in StartedRuns :
        /\ Exited(r)
        /\ FailedSteps(r) = {"build"}
        /\ "patch" \in Range(cfgWrites[r])
        /\ dest0 # EmptyTree

\* the text with its first occurrence of old removed (unchanged if none)
RemoveFirst(s, old) ==
    IF ~Contains(s, old) THEN s
    ELSE LET i == CHOOSE k \in 1..(Len(s) - Len(old) + 1) :
                      /\ SubSeq(s, k, k + Len(old) - 1) = old
                      /\ \A j \in 1..(k - 1) : SubSeq(s, j, j + Len(old) - 1) # old
         IN SubSeq(s, 1, i - 1) \o SubSeq(s, i + Len(old), Len(s))

\* C4 (as stated): the restore writes back the text it read with exactly
\* one occurrence of the marker, the first, removed; every other
\* occurrence and all other content stay; a text without the marker is
\* written back unchanged.
C4_RestoreRemovesFirstOnly ==
    [][\A r \in Runs :
          (pc[r] = "restore_write" /\ cfgWrites'[r] # cfgWrites[r])
          => cfg' = RemoveFirst(config[r], STD_CODE)]_vars

\* C5: when config.toml holds the marker before the run, the patch step
\* writes nothing: no write of the patch step is ever recorded, the file is
\* untouched up to the build, and the build sees the pre-run content.
C5_NoWriteWhenMarked ==
    Contains(cfg0, STD_CODE) =>
        \A r \in StartedRuns :
            /\ "patch" \notin Range(cfgWrites[r])
            /\ cfgAtBuild[r] # NotBuilt => cfgAtBuild[r] = cfg0
            /\ "restore" \notin Range(cfgWrites[r]) => cfg = cfg0

C5_Witness ==
    /\ Contains(cfg0, STD_CODE)
    /\ cfg0 # STD_CODE
    /\ \E r \in StartedRuns : cfgAtBuild[r] # NotBuilt /\ "patch" \in Range(done[r])

\* C6 (as stated): whatever config.toml held before the run, it holds the
\* whole marker at the moment the build tool is invoked.
C6_MarkerPresentAtBuild ==
    \A r \in StartedRuns :
        cfgAtBuild[r] # NotBuilt => Contains(cfgAtBuild[r], STD_CODE)

\* the place of a step in the order the claim gives
ClaimedRank(step) ==
    CASE step = "read" -> 0
      [] step = "patch" -> 1
      [] step \in {"getsize", "write_size"} -> 2
      [] step = "build" -> 3
      [] step = "locate" -> 4
      [] step \in PublishSteps -> 5
      [] step \in GenerateSteps -> 6
      [] OTHER -> 7

\* C7 (as stated): the steps of a run complete in the order patch, build,
\* locate, publish, generate; the destination is modified only after the
\* stem was located, and a run whose location failed left it unmodified.
C7_LocateBeforePublish ==
    \A r \in StartedRuns :
        /\ \A i, j \in DOMAIN done[r] :
              i < j => ClaimedRank(done[r][i]) <= ClaimedRank(done[r][j])
        /\ dest # dest0 => "locate" \in Range(done[r])
        /\ "locate" \in FailedSteps(r) => dest = dest0

\* C8 (as stated): after a successful run every file of dist and of assets
\* is at the destination (with the source's content; a path in both holds
\* the assets' content, the fragment's path holds the fragment), and no
\* file that was at the destination before, at any depth, and is in
\* neither source is still there.
C8_DestinationMirrorsSources ==
    \A r \in StartedRuns :
        Succeeded(r) =>
            /\ \A p \in DOMAIN dist :
                  /\ p \in DOMAIN dest
                  /\ (p \notin DOMAIN assets /\ p # <<HTACCESS>>) => dest[p] = dist[p]
            /\ \A p \in DOMAIN assets :
                  /\ p \in DOMAIN dest
                  /\ p # <<HTACCESS>> => dest[p] = assets[p]
            /\ \A p \in DOMAIN dest0 :
                  (p \notin (DOMAIN dist \cup DOMAIN assets) /\ p # <<HTACCESS>>)
                  => p \notin DOMAIN dest

\* the steps of the try block (lines 15-37)
GuardedSteps ==
    {"getsize", "write_size", "build", "locate"} \cup PublishSteps \cup GenerateSteps

\* C9 (as stated): when a step of the guarded span failed, the exception the
\* caller gets is that step's, and the restore has run, unless the restore
\* itself failed, in which case the caller gets the restore's exception.
C9_OriginatingErrorObserved ==
    \A r \in StartedRuns :
        (Exited(r) /\ failed[r] # <<>> /\ failed[r][1][1] \in GuardedSteps) =>
            IF FailedSteps(r) \cap {"restore_read", "restore_write"} # {}
            THEN raised[r] = failed[r][Len(failed[r])][2]
            ELSE /\ raised[r] = failed[r][1][2]
                 /\ Count(cfgWrites[r], "restore") = 1

\* C10: when exactly one name in dist ends in ".wasm" and that name is
\* S + "_bg.wasm", the located stem is S, in whatever order the names are
\* listed and whatever other names are there.
C10_StemOfOnlyArtifact ==
    \A r \in StartedRuns :
        "locate" \in Range(done[r]) =>
            \A n \in Entries(dist) :
                (/\ EndsWith(n, BG_WASM)
                 /\ \A m \in Entries(dist) : EndsWith(m, DOT_WASM) => m = n)
                => outfile_name[r] \o BG_WASM = n

C10_Witness ==
    \E r \in StartedRuns :
        /\ "locate" \in Range(done[r])
        /\ Entries(dist) = {AB_WASM, V_JS, INDEX}
        /\ outfile_name[r] = <<"a", "b">>

\* the number a decimal string denotes
DigitChars == {"0", "1", "2", "3", "4", "5", "6", "7", "8", "9"}
DigitValue(ch) == CHOOSE d \in 0..9 : Digit(d) = ch
RECURSIVE DecValue(_)
DecValue(ds) ==
    IF ds = <<>> THEN 0 ELSE 10 * DecValue(SubSeq(ds, 1, Len(ds) - 1)) + DigitValue(ds[Len(ds)])

\* text is the decimal string of n: digits only, no leading zero, value n
IsDecimalOf(text, n) ==
    /\ text # <<>>
    /\ \A i \in DOMAIN text : text[i] \in DigitChars
    /\ Len(text) > 1 => text[1] # "0"
    /\ DecValue(text) = n

\* text reads: the template, then the block with the given header value
\* and the given targets of the two rewrite rules, and nothing else
IsFragment(text, tpl, sz, wasmTarget, jsTarget) ==
    \E i, j, k \in DOMAIN text :
        /\ i < j /\ j < k /\ k < Len(text)
        /\ SubSeq(text, 1, i - 1) = tpl
        /\ text[i] = BlockHeader
        /\ IsDecimalOf(SubSeq(text, i + 1, j - 1), sz)
        /\ text[j] = BlockRule
        /\ SubSeq(text, j + 1, k - 1) = wasmTarget
        /\ text[k] = BlockCond
        /\ SubSeq(text, k + 1, Len(text) - 1) = jsTarget
        /\ text[Len(text)] = BlockTail

\* C11: after a successful run the destination's .htaccess is the template
\* followed by the block, whose header value is the decimal string of the
\* asset size, whose unconditional rule targets stem + "_bg.wasm" and whose
\* referer-conditioned rule targets stem + ".js", for the stem located in
\* this run; nothing of a fragment that was there before is left.
C11_FragmentContent ==
    \A r \in StartedRuns :
        Succeeded(r) =>
            /\ <<HTACCESS>> \in DOMAIN dest
            /\ IsFragment(dest[<<HTACCESS>>], Template, assetSize,
                          outfile_name[r] \o BG_WASM, outfile_name[r] \o DOT_JS)
            /\ outfile_name[r] = DropLast(found[r], Len(BG_WASM))
            /\ found[r] \in Entries(dist)

C11_Witness ==
    \E r \in StartedRuns :
        /\ Succeeded(r)
        /\ assetSize = 123456789
        /\ <<HTACCESS>> \in DOMAIN dest0
        /\ outfile_name[r] = <<"v">>

\* C12: the location step completes only when dist holds a name ending in
\* ".wasm"; otherwise it raises StopIteration, which is no
\* CalledProcessError (the handler of lines 38-40 does not run), no step
\* that writes the fragment runs, and when nothing else fails the run exits
\* with the restore done once and StopIteration as the caller's exception.
C12_ArtifactNotFound ==
    \A r \in StartedRuns :
        /\ "locate" \in Range(done[r]) =>
              \E n \in Entries(dist) : EndsWith(n, DOT_WASM)
        /\ "locate" \in FailedSteps(r) =>
              /\ \A n \in Entries(dist) : ~EndsWith(n, DOT_WASM)
              /\ <<"locate", "StopIteration">> \in Range(failed[r])
              /\ "except" \notin Range(done[r])
              /\ Range(done[r]) \cap GenerateSteps = {}
              /\ pc[r] \notin GenerateSteps
              /\ (Exited(r) /\ FailedSteps(r) = {"locate"}) =>
                    /\ Count(cfgWrites[r], "restore") = 1
                    /\ raised[r] = "StopIteration"

C12_Witness ==
    \E r \in StartedRuns :
        /\ Exited(r)
        /\ FailedSteps(r) = {"locate"}
        /\ "build" \in Range(done[r])
        /\ dist # EmptyTree
        /\ "patch" \in Range(cfgWrites[r])

\* where the first occurrence of sub starts in s (sub occurs in s)
FirstIndex(s, sub) ==
    CHOOSE k \in 1..(Len(s) - Len(sub) + 1) :
        /\ SubSeq(s, k, k + Len(sub) - 1) = sub
        /\ \A j \in 1..(k - 1) : SubSeq(s, j, j + Len(sub) - 1) # sub

\* C13: in a run that found the marker already in config.toml the patch
\* step writes nothing, yet the restore runs and writes (whenever the
\* finally block is not cut short by a failure of its own), and the file
\* it leaves is the pre-run text up to its first marker followed by a
\* shorter rest: that occurrence (a whole number of marker lengths) is gone.
C13_PreexistingMarkerStripped ==
    \A r \in StartedRuns :
        (/\ Contains(cfg0, STD_CODE)
         /\ Exited(r)
         /\ "patch" \in Range(done[r])
         /\ FailedSteps(r) \cap {"remove", "restore_read", "restore_write"} = {})
        => /\ "patch" \notin Range(cfgWrites[r])
           /\ Count(cfgWrites[r], "restore") = 1
           /\ LET i == FirstIndex(cfg0, STD_CODE)
                  gone == Len(cfg0) - Len(cfg)
              IN /\ gone >= Len(STD_CODE)
                 /\ gone % Len(STD_CODE) = 0
                 /\ SubSeq(cfg, 1, i - 1) = SubSeq(cfg0, 1, i - 1)
                 /\ SubSeq(cfg, i, Len(cfg)) # SubSeq(cfg0, i, Len(cfg0))

C13_Witness ==
    \E r \in StartedRuns :
        /\ Contains(cfg0, STD_CODE)
        /\ Succeeded(r)
        /\ Len(cfg0) = Len(STD_CODE) + 2
        /\ Len(cfg) = 2

\* the pre-run contents with which a run on its own builds with the
\* marker in place: the marker is there already, or "build-std" is absent
\* and the patch step appends it
SafeAlone(text) == Contains(text, STD_CODE) \/ ~Contains(text, BUILD_STD)

\* C14: with such a pre-run content, a run invokes the build tool on a
\* config.toml without the marker only after another run's restore has
\* written the file: alone (the other run having restored nothing) it
\* always builds with the marker; the witness is the interleaving in which
\* it does build without it.
C14_MarkerMissingOnlyAfterOtherRestore ==
    SafeAlone(cfg0) =>
        \A r \in StartedRuns :
            (cfgAtBuild[r] # NotBuilt /\ ~Contains(cfgAtBuild[r], STD_CODE))
            => \E o \in StartedRuns \ {r} : "restore" \in Range(cfgWrites[o])

C14_Witness ==
    \E r \in StartedRuns, o \in StartedRuns :
        /\ o # r
        /\ NeedsPatch(cfg0)
        /\ cfgAtBuild[r] # NotBuilt
        /\ ~Contains(cfgAtBuild[r], STD_CODE)
        /\ "patch" \in Range(cfgWrites[o])
        /\ "restore" \in Range(cfgWrites[o])
        /\ cfgWrites[r] = <<>>

IsPrefix(a, b) == Len(a) <= Len(b) /\ SubSeq(b, 1, Len(a)) = a
IsPublishStep(step) == step \in PublishSteps
PublishOrder == <<"del", "xcopy_dist", "xcopy_assets">>

\* the publish sub-steps a run has completed are, in order, the first ones
\* of del, xcopy dist, xcopy assets, and the one it is at comes next
PublishedInOrder(r) ==
    /\ IsPrefix(SelectSeq(done[r], IsPublishStep), PublishOrder)
    /\ pc[r] \in PublishSteps =>
          PublishOrder[Len(SelectSeq(done[r], IsPublishStep)) + 1] = pc[r]
    /\ FailedSteps(r) \cap PublishSteps # {} => "locate" \notin Range(done[r])

\* C15 (as stated): the publish sub-steps run in the order del, xcopy dist,
\* xcopy assets, each only after the one before succeeded, and after a
\* successful run every path that is in dist and in assets holds the
\* content of assets at the destination.
C15_AssetsOverrideEverywhere ==
    \A r \in StartedRuns :
        /\ PublishedInOrder(r)
        /\ Succeeded(r) =>
              \A p \in DOMAIN dist \cap DOMAIN assets : dest[p] = assets[p]

\* C15 (amended): the same, for every shared path but .htaccess directly
\* under the root, which holds the fragment generated in this run.
C15_AssetsOverrideButFragment ==
    \A r \in StartedRuns :
        /\ PublishedInOrder(r)
        /\ Succeeded(r) =>
              \A p \in DOMAIN dist \cap DOMAIN assets :
                  IF p = <<HTACCESS>>
                  THEN IsFragment(dest[p], Template, assetSize,
                                  outfile_name[r] \o BG_WASM, outfile_name[r] \o DOT_JS)
                  ELSE dest[p] = assets[p]

C15_Witness ==
    \E r \in StartedRuns :
        /\ Succeeded(r)
        /\ {<<INDEX>>, <<SUB, INDEX>>, <<HTACCESS>>} \subseteq DOMAIN dist \cap DOMAIN assets
        /\ <<INDEX>> \in DOMAIN dest0

\* the statements between the write of file_size and its removal
ScratchSpan ==
    {"build", "except", "locate", "remove"} \cup PublishSteps \cup GenerateSteps

\* C16: from the moment trunk build is invoked until the finally block, the
\* scratch file exists and holds the decimal string of the asset size, the
\* value of `size` that goes into the fragment; when the run has exited, by
\* success or by a failure of any statement of the try block, the file does
\* not exist (a removal that itself fails on an existing file aside).
C16_ScratchFile ==
    \A r \in StartedRuns :
        /\ (pc[r] \in ScratchSpan /\ "write_size" \in Range(done[r])) =>
              /\ IsDecimalOf(file_size, assetSize)
              /\ size[r] = assetSize
        /\ (/\ Exited(r)
            /\ "patch" \in Range(done[r])
            /\ <<"remove", "PermissionError: file_size">> \notin Range(failed[r]))
           => file_size = NoFile

C16_Witness ==
    \E r \in StartedRuns :
        /\ Exited(r)
        /\ FailedSteps(r) = {"xcopy_assets"}
        /\ assetSize = 123456789
        /\ file_size = NoFile

\* C17 (as stated): whenever the location step completes, stem + "_bg.wasm"
\* is the name it found in dist, whatever names dist holds.
C17_RewriteTargetIsFoundFile ==
    \A r \in StartedRuns :
        "locate" \in Range(done[r]) =>
            /\ found[r] \in Entries(dist)
            /\ outfile_name[r] \o BG_WASM = found[r]

IsDestStep(step) == step \in PublishSteps \cup GenerateSteps

\* C18: the statements that act on the destination complete in the order
\* del, xcopy, xcopy, open, write, so that after a successful run the
\* destination's .htaccess is the fragment of this run even when dist or
\* assets hold a .htaccess; and once the del has completed, as long as the
\* fragment is not written, a .htaccess at the destination is a file copied
\* from dist or assets in this run or the file just truncated, never the
\* one that was there before the run.
C18_FragmentWrittenLast ==
    \A r \in StartedRuns :
        /\ IsPrefix(SelectSeq(done[r], IsDestStep),
                    PublishOrder \o <<"open_htaccess", "write_htaccess">>)
        /\ Succeeded(r) =>
              /\ <<HTACCESS>> \in DOMAIN dest
              /\ IsFragment(dest[<<HTACCESS>>], Template, assetSize,
                            outfile_name[r] \o BG_WASM, outfile_name[r] \o DOT_JS)
        /\ ("del" \in Range(done[r]) /\ "write_htaccess" \notin Range(done[r])) =>
              (<<HTACCESS>> \in DOMAIN dest =>
                  dest[<<HTACCESS>>] \in {FromDist, FromAssets, <<>>})

C18_Witness ==
    \E r \in StartedRuns :
        /\ Succeeded(r)
        /\ <<HTACCESS>> \in DOMAIN dist \cap DOMAIN assets \cap DOMAIN dest0

====
